---- MODULE Spec2Model ----
(***************************************************************************)
(* The three Schnapsen agents LowRiskBotFinal, MidRiskBot and              *)
(* HighRiskBotFinal as one state machine.  The state is one agent          *)
(* instance; the actions are the three entry points the game engine calls  *)
(* on it: get_move, notify_trump_exchange and notify_game_end.             *)
(*                                                                         *)
(* Numbers.  risk_tolerance is kept in hundredths (0.3 is 30, 1 is 100).   *)
(* Scores are exact fractions <<numerator, denominator>> in lowest terms   *)
(* with a positive denominator.                                            *)
(***************************************************************************)
EXTENDS Integers, Sequences, FiniteSets, TLC

(* ------------------------------ bounds -------------------------------- *)
\* num_samples handed to the constructor ranges over 0..MaxSamples
MaxSamples == 2
\* the agent's own hand holds 1..MaxOwnHand cards when it is asked to move
MaxOwnHand == 2
\* the engine asks for at most MaxTurns moves in one game when games follow
\* one another,
MaxTurns == 1
\* and for at most MaxGameTurns moves when one game is followed on its own
MaxGameTurns == 3
\* the engine notifies at most MaxHist trump exchanges in one game when games
\* follow one another,
MaxHist == 1
\* and at most MaxGameHist when one game is followed on its own
MaxGameHist == 2
\* the random source has RandMod states
RandMod == 4
\* a sampled opponent hand handed to the scoring methods holds at most
\* MaxOppHand cards
MaxOppHand == 2

(* ------------------------- cards and moves ---------------------------- *)
Variants == {"LowRiskBotFinal", "MidRiskBot", "HighRiskBotFinal"}

Suits == {"HEARTS", "CLUBS", "SPADES", "DIAMONDS"}

Ranks == {"ACE", "TEN", "JACK", "QUEEN", "KING"}

Card(r, s) == [rank |-> r, suit |-> s]

\* Python's None
None == [kind |-> "None"]

RegularMove(card) == [kind |-> "RegularMove", card |-> card]

Marriage(queen_card, king_card) ==
    [kind |-> "Marriage", queen_card |-> queen_card, king_card |-> king_card]

TrumpExchange(jack) == [kind |-> "TrumpExchange", jack |-> jack]

\* Marriage.suit
MarriageSuit(move) == move.queen_card.suit

\* Rank.value: the position of the rank in the engine's Rank enumeration
RankValue(r) ==
    CASE r = "ACE" -> 1
      [] r = "TEN" -> 10
      [] r = "JACK" -> 11
      [] r = "QUEEN" -> 12
      [] r = "KING" -> 13

\* a > b on two members of Rank
RankGreater(a, b) == RankValue(a) > RankValue(b)

\* SchnapsenTrickScorer.rank_to_points
rank_to_points(r) ==
    CASE r = "ACE" -> 11
      [] r = "TEN" -> 10
      [] r = "KING" -> 4
      [] r = "QUEEN" -> 3
      [] r = "JACK" -> 2
      [] OTHER -> 0

\* SchnapsenTrickScorer.marriage(move, gamestate).pending_points
marriage_pending_points(move, trump_suit) ==
    IF MarriageSuit(move) = trump_suit THEN 40 ELSE 20

(* ----------------------------- fractions ------------------------------ *)
Abs(n) == IF n < 0 THEN -n ELSE n

RECURSIVE GCD(_, _)
GCD(a, b) == IF b = 0 THEN a ELSE GCD(b, a % b)

\* n/d in lowest terms, d > 0
Frac(n, d) ==
    LET g == GCD(Abs(n), d)
    IN  IF n = 0 THEN <<0, 1>> ELSE <<n \div g, d \div g>>

FInt(n) == <<n, 1>>

FAdd(a, b) == Frac(a[1] * b[2] + b[1] * a[2], a[2] * b[2])

FSub(a, b) == Frac(a[1] * b[2] - b[1] * a[2], a[2] * b[2])

FMul(a, b) == Frac(a[1] * b[1], a[2] * b[2])

\* a / n for an integer n # 0
FDivInt(a, n) == IF n > 0 THEN Frac(a[1], a[2] * n) ELSE Frac(-a[1], a[2] * (-n))

\* a > b
FGreater(a, b) == a[1] * b[2] > b[1] * a[2]

\* F(v), with v evaluated once, before F is applied
With(v, F(_)) == CHOOSE y \in {F(x) : x \in {v}} : TRUE

(* ------------------------------ state --------------------------------- *)
VARIABLES
    status,               \* "ready", or the error the constructor raised
    variant,              \* the class of the instance
    name,                 \* Bot.name
    risk_tolerance,       \* self.risk_tolerance, in hundredths
    num_samples,          \* self.num_samples
    depth,                \* self.depth
    rand,                 \* the state of self.rand
    my_past_moves,        \* self.my_past_moves
    opponent_past_moves,  \* self.opponent_past_moves
    turn_no,              \* the moves the engine has asked for in this game
    last_call,            \* the last call the engine made: its name, its
                          \* arguments and what it did with the collaborators
    ret,                  \* what that call returned or raised
    first_decision        \* history: the get_move call that was the first
                          \* call on the instance, or None before it, or
                          \* NoLog when no history is kept

vars == <<status, variant, name, risk_tolerance, num_samples, depth, rand,
          my_past_moves, opponent_past_moves, turn_no, last_call, ret,
          first_decision>>

\* no history of decisions is kept
NoLog == [kind |-> "NoLog"]

(* --------------------------- construction ----------------------------- *)
DefaultName(v) == v

\* the default of the risk_tolerance parameter of __init__
DefaultRiskTolerance(v) ==
    CASE v = "LowRiskBotFinal" -> 30
      [] v = "MidRiskBot" -> 55
      [] v = "HighRiskBotFinal" -> 80

\* the risk_tolerance values a caller constructs an agent with: the default,
\* the ends of [0,1] and one value on either side of it
StartTolerances(v) == {-10, 0, DefaultRiskTolerance(v), 100, 110}

\* the asserts of __init__: LowRiskBotFinal and HighRiskBotFinal have them,
\* MidRiskBot has none
InitRaises(v, n, d) ==
    /\ v \in {"LowRiskBotFinal", "HighRiskBotFinal"}
    /\ (n < 1 \/ d < 1)

\* __init__(rand, num_samples, depth, name, risk_tolerance)
Constructor(v, r, n, d, nm, t) ==
    /\ variant = v
    /\ status = IF InitRaises(v, n, d) THEN "AssertionError" ELSE "ready"
    /\ name = nm
    /\ risk_tolerance = t
    /\ rand = r
    /\ num_samples = n
    /\ depth = d
    /\ my_past_moves = <<>>
    /\ opponent_past_moves = <<>>
    /\ turn_no = 0
    /\ last_call = [op |-> "__init__"]
    /\ ret = None

\* depth is stored and never read: one value the asserts reject, one they
\* accept
Depths == {0, 1}

Init ==
    \E v \in Variants, r \in 0..(RandMod - 1), n \in 0..MaxSamples,
       d \in Depths :
        \E t \in StartTolerances(v) :
            /\ Constructor(v, r, n, d, DefaultName(v), t)
            /\ first_decision = NoLog

(* ------------------------- game-end feedback -------------------------- *)
Min(a, b) == IF a < b THEN a ELSE b

Max(a, b) == IF a > b THEN a ELSE b

\* mutant: the win step of the other two agents
adjust_risk_parameters_symmetric(t, won) ==
    LET t1 == IF won THEN t + 5 ELSE t - 5
    IN  Max(0, Min(t1, 100))

\* LowRiskBotFinal.adjust_risk_parameters
adjust_risk_parameters(t, won) ==
    LET t1 == IF won THEN t + 10 ELSE t - 5
    IN  Max(0, Min(t1, 100))

\* HighRiskBotFinal.recalculate_risk_parameters
recalculate_risk_parameters(t, won) ==
    LET t1 == IF won THEN t + 5 ELSE t - 5
    IN  Max(0, Min(t1, 100))

\* mutant: the two branches without their bounds
MidAdjustUnbounded(t, won) ==
    IF won THEN t + 5 ELSE t - 5

\* the two branches of MidRiskBot.notify_game_end
MidAdjust(t, won) ==
    IF won THEN Min(t + 5, 100) ELSE Max(t - 5, 0)

\* mutant: the opponent's buffer is kept across games
notify_game_end_keeping(won) ==
    /\ status = "ready"
    /\ risk_tolerance' =
           CASE variant = "LowRiskBotFinal" ->
                    adjust_risk_parameters(risk_tolerance, won)
             [] variant = "MidRiskBot" -> MidAdjust(risk_tolerance, won)
             [] variant = "HighRiskBotFinal" ->
                    recalculate_risk_parameters(risk_tolerance, won)
    /\ my_past_moves' = <<>>
    /\ turn_no' = 0
    /\ last_call' = [op |-> "notify_game_end", won |-> won,
                     cleared |-> <<Len(my_past_moves),
                                   Len(opponent_past_moves)>>]
    /\ ret' = None
    /\ UNCHANGED <<status, variant, name, num_samples, depth, rand,
                   opponent_past_moves, first_decision>>

notify_game_end(won) ==
    /\ status = "ready"
    /\ risk_tolerance' =
           CASE variant = "LowRiskBotFinal" ->
                    adjust_risk_parameters(risk_tolerance, won)
             [] variant = "MidRiskBot" -> MidAdjust(risk_tolerance, won)
             [] variant = "HighRiskBotFinal" ->
                    recalculate_risk_parameters(risk_tolerance, won)
    /\ my_past_moves' = <<>>
    /\ opponent_past_moves' = <<>>
    /\ turn_no' = 0
    /\ last_call' = [op |-> "notify_game_end", won |-> won,
                     cleared |-> <<Len(my_past_moves),
                                   Len(opponent_past_moves)>>]
    /\ ret' = None
    /\ UNCHANGED <<status, variant, name, num_samples, depth, rand,
                   first_decision>>

(* ---------------------- trump-exchange notification ------------------- *)
\* the exchanges the opponent can make: the Jack of the trump suit
TrumpSuits == {"HEARTS", "SPADES"}

OpponentExchanges == {TrumpExchange(Card("JACK", s)) : s \in TrumpSuits}

\* mutant: an exchange by the opponent is taken as a setback
notify_trump_exchange_adjusting(move) ==
    /\ status = "ready"
    /\ Len(opponent_past_moves) < MaxGameHist
    /\ opponent_past_moves' = Append(opponent_past_moves, move)
    /\ risk_tolerance' = Max(risk_tolerance - 5, 0)
    /\ last_call' = [op |-> "notify_trump_exchange", move |-> move]
    /\ ret' = None
    /\ UNCHANGED <<status, variant, name, num_samples, depth,
                   rand, my_past_moves, turn_no, first_decision>>

\* mutant: the move is put at the head of the history
notify_trump_exchange_prepending(move) ==
    /\ status = "ready"
    /\ Len(opponent_past_moves) < MaxGameHist
    /\ opponent_past_moves' = <<move>> \o opponent_past_moves
    /\ last_call' = [op |-> "notify_trump_exchange", move |-> move]
    /\ ret' = None
    /\ UNCHANGED <<status, variant, name, risk_tolerance, num_samples, depth,
                   rand, my_past_moves, turn_no, first_decision>>

notify_trump_exchange(move) ==
    /\ status = "ready"
    /\ Len(opponent_past_moves) < MaxGameHist
    /\ opponent_past_moves' = Append(opponent_past_moves, move)
    /\ last_call' = [op |-> "notify_trump_exchange", move |-> move]
    /\ ret' = None
    /\ UNCHANGED <<status, variant, name, risk_tolerance, num_samples, depth,
                   rand, my_past_moves, turn_no, first_decision>>

(* --------------------- the engine's side of a turn -------------------- *)
\* the cards the agent can hold, in the order the engine lists them
OwnCards ==
    <<Card("ACE", "HEARTS"), Card("ACE", "SPADES"), Card("QUEEN", "HEARTS"),
      Card("KING", "HEARTS"), Card("JACK", "SPADES")>>

Range(seq) == {seq[i] : i \in 1..Len(seq)}

OwnHands ==
    {h \in SUBSET Range(OwnCards) : Cardinality(h) \in 1..MaxOwnHand}

\* the moves the opponent can have led with
LeaderMoves ==
    {RegularMove(Card("TEN", "CLUBS")), RegularMove(Card("KING", "DIAMONDS"))}

\* what the agent's view shows of the opponent: its won cards, and in phase
\* two its hand and the part of it the agent has seen; worlds lists the
\* opponent hands the world-completion draws from
Boards ==
    { [phase |-> "ONE", opponent_won_cards |-> {},
       opponent_hand_in_phase_two |-> {},
       known_cards_of_opponent_hand |-> {},
       worlds |-> << {Card("QUEEN", "CLUBS"), Card("TEN", "DIAMONDS")},
                     {Card("KING", "SPADES"), Card("TEN", "HEARTS")} >>],
      [phase |-> "ONE",
       opponent_won_cards |-> {Card("KING", "CLUBS"), Card("QUEEN", "CLUBS"),
                               Card("TEN", "SPADES")},
       opponent_hand_in_phase_two |-> {},
       known_cards_of_opponent_hand |-> {Card("JACK", "HEARTS")},
       worlds |-> << {Card("JACK", "HEARTS"), Card("TEN", "HEARTS")},
                     {Card("JACK", "HEARTS"), Card("JACK", "CLUBS")},
                     {Card("JACK", "HEARTS"), Card("KING", "SPADES")} >>],
      [phase |-> "TWO",
       opponent_won_cards |-> {Card("QUEEN", "DIAMONDS"),
                               Card("JACK", "DIAMONDS")},
       opponent_hand_in_phase_two |-> {Card("KING", "SPADES"),
                                       Card("TEN", "HEARTS")},
       known_cards_of_opponent_hand |-> {Card("KING", "SPADES")},
       worlds |-> << {Card("KING", "SPADES"), Card("TEN", "HEARTS")} >>],
      [phase |-> "TWO",
       opponent_won_cards |-> {Card("QUEEN", "SPADES"), Card("KING", "SPADES"),
                               Card("KING", "CLUBS")},
       opponent_hand_in_phase_two |-> {},
       known_cards_of_opponent_hand |-> {},
       worlds |-> << {} >>] }

\* PlayerPerspective.valid_moves: every card of the hand as a regular move;
\* the leader can also declare a marriage it holds and, in phase one,
\* exchange the Jack of trumps
ValidMoves(hand, trump_suit, phase, leader_move) ==
    LET regular == [i \in 1..Len(OwnCards) |-> RegularMove(OwnCards[i])]
        exchange ==
            IF /\ leader_move = None
               /\ phase = "ONE"
               /\ Card("JACK", trump_suit) \in hand
            THEN <<TrumpExchange(Card("JACK", trump_suit))>>
            ELSE <<>>
        marriage ==
            IF /\ leader_move = None
               /\ Card("QUEEN", "HEARTS") \in hand
               /\ Card("KING", "HEARTS") \in hand
            THEN <<Marriage(Card("QUEEN", "HEARTS"), Card("KING", "HEARTS"))>>
            ELSE <<>>
    IN  SelectSeq(regular, LAMBDA m : m.card \in hand) \o exchange \o marriage

\* the PlayerPerspective objects get_move is called with
Perspective(hand, trump_suit, board, leader_move) ==
    [valid_moves |-> ValidMoves(hand, trump_suit, board.phase, leader_move),
     trump_suit |-> trump_suit,
     phase |-> board.phase,
     opponent_won_cards |-> board.opponent_won_cards,
     opponent_hand_in_phase_two |-> board.opponent_hand_in_phase_two,
     known_cards_of_opponent_hand |-> board.known_cards_of_opponent_hand,
     seen_cards |-> hand \cup board.opponent_won_cards
                         \cup board.known_cards_of_opponent_hand,
     worlds |-> board.worlds]

\* deck_generator.get_initial_deck()
InitialDeck == {Card(r, s) : r \in Ranks, s \in Suits}

(* --------------------------- random source ---------------------------- *)
\* the generator steps once per number drawn
RandNext(r) == (r + 1) % RandMod

\* Random._randbelow(n) in state r
randbelow(r, n) == r % n

Swap(x, i, j) == [x EXCEPT ![i] = x[j], ![j] = x[i]]

\* random.Random.shuffle: for i in reversed(range(1, len(x))):
\*     j = randbelow(i + 1); x[i], x[j] = x[j], x[i]      (i, j from 0)
RECURSIVE ShuffleFrom(_, _, _)
ShuffleFrom(x, i, r) ==
    IF i < 1 THEN [list |-> x, rand |-> r]
    ELSE With(Swap(x, i + 1, randbelow(r, i + 1) + 1),
              LAMBDA y : ShuffleFrom(y, i - 1, RandNext(r)))

shuffle(x, r) == ShuffleFrom(x, Len(x) - 1, r)

\* PlayerPerspective.make_assumption(leader_move, rand): one complete state
\* drawn with the generator it is handed
make_assumption(perspective, leader_move, r) ==
    [gamestate |->
         [follower_hand |->
              perspective.worlds[randbelow(r, Len(perspective.worlds)) + 1],
          trump_suit |-> perspective.trump_suit,
          leader_move |-> leader_move],
     rand |-> RandNext(r)]

(* ------------------- scoring (LowRiskBotFinal, MidRiskBot) ------------ *)
\* _evaluate_points_accumulated
evaluate_points_accumulated(gamestate, move) ==
    CASE move.kind = "RegularMove" -> rank_to_points(move.card.rank)
      [] move.kind = "Marriage" ->
             marriage_pending_points(move, gamestate.trump_suit)
      [] OTHER -> 0

\* mutant: >= for > in the comparison with the played card
estimate_probability_of_consequence_at_least(gamestate, move) ==
    LET opponent_hand == gamestate.follower_hand
        n == Cardinality(opponent_hand)
    IN  CASE move.kind = "RegularMove" ->
                 LET higher_cards ==
                         {card \in opponent_hand :
                              RankValue(card.rank) >= RankValue(move.card.rank)}
                 IN  IF n # 0 THEN Frac(Cardinality(higher_cards), n)
                     ELSE FInt(0)
          [] move.kind = "Marriage" ->
                 LET same_suit_cards ==
                         {card \in opponent_hand :
                              /\ card.suit = MarriageSuit(move)
                              /\ RankValue(card.rank) > RankValue("QUEEN")}
                     trump_cards ==
                         {card \in opponent_hand :
                              card.suit = gamestate.trump_suit}
                 IN  IF n # 0
                     THEN Frac(Cardinality(same_suit_cards)
                                   + Cardinality(trump_cards), n)
                     ELSE FInt(0)
          [] move.kind = "TrumpExchange" -> Frac(3, 10)
          [] OTHER -> Frac(1, 2)

\* mutant: the ranks are compared by their points, which put the Ace and
\* the Ten above the Queen
estimate_probability_of_consequence_by_points(gamestate, move) ==
    LET opponent_hand == gamestate.follower_hand
        n == Cardinality(opponent_hand)
    IN  CASE move.kind = "RegularMove" ->
                 LET higher_cards ==
                         {card \in opponent_hand :
                              rank_to_points(card.rank)
                                  > rank_to_points(move.card.rank)}
                 IN  IF n # 0 THEN Frac(Cardinality(higher_cards), n)
                     ELSE FInt(0)
          [] move.kind = "Marriage" ->
                 LET same_suit_cards ==
                         {card \in opponent_hand :
                              /\ card.suit = MarriageSuit(move)
                              /\ rank_to_points(card.rank)
                                     > rank_to_points("QUEEN")}
                     trump_cards ==
                         {card \in opponent_hand :
                              card.suit = gamestate.trump_suit}
                 IN  IF n # 0
                     THEN Frac(Cardinality(same_suit_cards)
                                   + Cardinality(trump_cards), n)
                     ELSE FInt(0)
          [] move.kind = "TrumpExchange" -> Frac(3, 10)
          [] OTHER -> Frac(1, 2)

\* estimate_probability_of_consequence, as a fraction
estimate_probability_of_consequence(gamestate, move) ==
    LET opponent_hand == gamestate.follower_hand
        n == Cardinality(opponent_hand)
    IN  CASE move.kind = "RegularMove" ->
                 LET higher_cards ==
                         {card \in opponent_hand :
                              RankValue(card.rank) > RankValue(move.card.rank)}
                 IN  IF n # 0 THEN Frac(Cardinality(higher_cards), n)
                     ELSE FInt(0)
          [] move.kind = "Marriage" ->
                 LET same_suit_cards ==
                         {card \in opponent_hand :
                              /\ card.suit = MarriageSuit(move)
                              /\ RankValue(card.rank) > RankValue("QUEEN")}
                     trump_cards ==
                         {card \in opponent_hand :
                              card.suit = gamestate.trump_suit}
                 IN  IF n # 0
                     THEN Frac(Cardinality(same_suit_cards)
                                   + Cardinality(trump_cards), n)
                     ELSE FInt(0)
          [] move.kind = "TrumpExchange" -> Frac(3, 10)
          [] OTHER -> Frac(1, 2)

\* HighRiskBotFinal.estimate_probability_of_consequence: the ranks are
\* compared as Rank members, not by their values
high_estimate_probability_of_consequence(gamestate, move) ==
    LET opponent_hand == gamestate.follower_hand
        n == Cardinality(opponent_hand)
    IN  CASE move.kind = "RegularMove" ->
                 LET higher_cards ==
                         {card \in opponent_hand :
                              RankGreater(card.rank, move.card.rank)}
                 IN  IF n # 0 THEN Frac(Cardinality(higher_cards), n)
                     ELSE FInt(0)
          [] move.kind = "Marriage" ->
                 LET same_suit_cards ==
                         {card \in opponent_hand :
                              /\ card.suit = MarriageSuit(move)
                              /\ RankGreater(card.rank, "QUEEN")}
                     trump_cards ==
                         {card \in opponent_hand :
                              card.suit = gamestate.trump_suit}
                 IN  IF n # 0
                     THEN Frac(Cardinality(same_suit_cards)
                                   + Cardinality(trump_cards), n)
                     ELSE FInt(0)
          [] move.kind = "TrumpExchange" -> Frac(3, 10)
          [] OTHER -> Frac(1, 2)

\* mutant: the default the comment at the last return announces
estimate_consequence_severity_default_one(gamestate, move) ==
    CASE move.kind = "RegularMove" -> rank_to_points(move.card.rank)
      [] move.kind = "Marriage" ->
             marriage_pending_points(move, gamestate.trump_suit)
      [] move.kind = "TrumpExchange" -> 1
      [] OTHER -> 1

\* estimate_consequence_severity
estimate_consequence_severity(gamestate, move) ==
    CASE move.kind = "RegularMove" -> rank_to_points(move.card.rank)
      [] move.kind = "Marriage" ->
             marriage_pending_points(move, gamestate.trump_suit)
      [] move.kind = "TrumpExchange" -> 1
      [] OTHER -> 0

\* evaluate_risk, with self.risk_tolerance = t hundredths
evaluate_risk(gamestate, move, t) ==
    FMul(FMul(FInt(estimate_consequence_severity(gamestate, move)),
              estimate_probability_of_consequence(gamestate, move)),
         Frac(t, 100))

\* HighRiskBotFinal.evaluate_risk
high_evaluate_risk(gamestate, move, t) ==
    FMul(FMul(FInt(estimate_consequence_severity(gamestate, move)),
              high_estimate_probability_of_consequence(gamestate, move)),
         Frac(t, 100))

(* --------------- opponent potential (LowRiskBotFinal) ----------------- *)
RECURSIVE SumPoints(_)
SumPoints(cards) ==
    IF cards = {} THEN 0
    ELSE LET c == CHOOSE x \in cards : TRUE
         IN  rank_to_points(c.rank) + SumPoints(cards \ {c})

\* get_average_value_card
get_average_value_card(perspective) ==
    LET unseen_cards == InitialDeck \ perspective.seen_cards
    IN  IF unseen_cards # {}
        THEN Frac(SumPoints(unseen_cards), Cardinality(unseen_cards))
        ELSE FInt(0)

RECURSIVE SumMarriages(_, _)
SumMarriages(suits, trump_suit) ==
    IF suits = {} THEN 0
    ELSE LET s == CHOOSE x \in suits : TRUE
         IN  marriage_pending_points(
                 Marriage(Card("QUEEN", s), Card("KING", s)), trump_suit)
             + SumMarriages(suits \ {s}, trump_suit)

\* mutant: the points are added in the loop over the won cards, once per
\* Queen and King
estimate_marriage_points_per_card(perspective) ==
    IF perspective.phase # "TWO" THEN FInt(0)
    ELSE LET royals == {card \in perspective.opponent_won_cards :
                            card.rank \in {"QUEEN", "KING"}}
             trumps == {card \in royals : card.suit = perspective.trump_suit}
         IN  Frac(40 * Cardinality(trumps)
                      + 20 * Cardinality(royals \ trumps), 2)

\* LowRiskBotFinal.estimate_marriage_points: half the marriage value of
\* every suit with a Queen or a King among the opponent's won cards, and
\* 0 outside phase two
estimate_marriage_points(perspective) ==
    IF perspective.phase # "TWO" THEN FInt(0)
    ELSE LET potential_marriages ==
                 {s \in Suits :
                      \E card \in perspective.opponent_won_cards :
                          card.rank \in {"QUEEN", "KING"} /\ card.suit = s}
         IN  Frac(SumMarriages(potential_marriages, perspective.trump_suit), 2)

\* LowRiskBotFinal.estimate_opponents_potential_score
estimate_opponents_potential_score(perspective) ==
    LET banked == FInt(SumPoints(perspective.opponent_won_cards))
        unknown_cards_count ==
            Cardinality(perspective.opponent_hand_in_phase_two)
                - Cardinality(perspective.known_cards_of_opponent_hand)
        unseen ==
            IF perspective.phase = "TWO"
            THEN FMul(FInt(unknown_cards_count),
                      get_average_value_card(perspective))
            ELSE FInt(0)
    IN  FAdd(FAdd(banked, unseen), estimate_marriage_points(perspective))

(* --------------- opponent potential (HighRiskBotFinal) ---------------- *)
\* HighRiskBotFinal.estimate_marriage_points: as in LowRiskBotFinal, in
\* every phase
high_estimate_marriage_points(perspective) ==
    LET potential_marriages ==
            {s \in Suits :
                 \E card \in perspective.opponent_won_cards :
                     card.rank \in {"QUEEN", "KING"} /\ card.suit = s}
    IN  Frac(SumMarriages(potential_marriages, perspective.trump_suit), 2)

\* HighRiskBotFinal.estimate_opponents_potential_score: the term of the
\* unknown cards is added in every phase
high_estimate_opponents_potential_score(perspective) ==
    LET banked == FInt(SumPoints(perspective.opponent_won_cards))
        unknown_cards_count ==
            Cardinality(perspective.opponent_hand_in_phase_two)
                - Cardinality(perspective.known_cards_of_opponent_hand)
        unseen == FMul(FInt(unknown_cards_count),
                       get_average_value_card(perspective))
    IN  FAdd(FAdd(banked, unseen), high_estimate_marriage_points(perspective))

(* --------------------------- move selection --------------------------- *)
\* float('-inf'): below every fraction under FGreater
NegInf == <<-1, 0>>

\* mutant: the running best starts at 0
StartLoopAtZero(r) ==
    [best_move |-> None, best_net_gain |-> <<0, 1>>, rand |-> r,
     samples |-> <<>>, states |-> <<>>, net_gains |-> <<>>,
     raised |-> "None"]

\* the state of a selection loop: the running best, the generator, the
\* leader_move argument and the result of every make_assumption call so far
\* and the aggregate of every candidate so far
StartLoop(r) ==
    [best_move |-> None, best_net_gain |-> NegInf, rand |-> r,
     samples |-> <<>>, states |-> <<>>, net_gains |-> <<>>,
     raised |-> "None"]

\* the inner loop of LowRiskBotFinal: num_samples trials of one candidate,
\* each drawing a state and adding (reward - risk) - opponents_potential_score
RECURSIVE LowTrials(_, _, _, _, _, _, _)
LowTrials(perspective, move, leader_move, opp, t, n, acc) ==
    IF n <= 0 THEN acc
    ELSE LET drawn == make_assumption(perspective, leader_move, acc.rand)
             reward == FInt(evaluate_points_accumulated(drawn.gamestate, move))
             risk == evaluate_risk(drawn.gamestate, move, t)
         IN  With([net_gain |-> FAdd(acc.net_gain,
                                     FSub(FSub(reward, risk), opp)),
                   rand |-> drawn.rand,
                   samples |-> Append(acc.samples, leader_move),
                   states |-> Append(acc.states, drawn.gamestate)],
                  LAMBDA next :
                      LowTrials(perspective, move, leader_move, opp, t, n - 1,
                                next))

\* mutant: >= for >
IsBetterOrEqual(net_gain, best_net_gain) ==
    ~FGreater(best_net_gain, net_gain)

\* if net_gain > best_net_gain
IsBetter(net_gain, best_net_gain) == FGreater(net_gain, best_net_gain)

\* the outer loop of evaluate_moves_as_leader / evaluate_moves_as_follower
RECURSIVE LowLoop(_, _, _, _, _, _, _, _)
LowLoop(moves, i, perspective, leader_move, opp, t, n, loop) ==
    IF i > Len(moves) THEN loop
    ELSE LET trials ==
                 LowTrials(perspective, moves[i], leader_move, opp, t, n,
                     [net_gain |-> FInt(0), rand |-> loop.rand,
                      samples |-> loop.samples, states |-> loop.states])
             better == IsBetter(trials.net_gain, loop.best_net_gain)
         IN  With([best_move |-> IF better THEN moves[i] ELSE loop.best_move,
                   best_net_gain |->
                       IF better THEN trials.net_gain ELSE loop.best_net_gain,
                   rand |-> trials.rand,
                   samples |-> trials.samples,
                   states |-> trials.states,
                   net_gains |-> Append(loop.net_gains, trials.net_gain),
                   raised |-> "None"],
                  LAMBDA next :
                      LowLoop(moves, i + 1, perspective, leader_move, opp, t,
                              n, next))

\* LowRiskBotFinal.evaluate_moves_as_leader
evaluate_moves_as_leader(moves, perspective, t, n, r) ==
    LowLoop(moves, 1, perspective, None,
            estimate_opponents_potential_score(perspective), t, n,
            StartLoop(r))

\* LowRiskBotFinal.evaluate_moves_as_follower
evaluate_moves_as_follower(moves, perspective, leader_move, t, n, r) ==
    LowLoop(moves, 1, perspective, leader_move,
            estimate_opponents_potential_score(perspective), t, n,
            StartLoop(r))

\* the leader_move MidRiskBot.get_move hands to make_assumption
MidSampleLeader(leader_move) == None

\* the inner loop of MidRiskBot.get_move
RECURSIVE MidTrials(_, _, _, _, _, _)
MidTrials(perspective, move, leader_move, t, n, acc) ==
    IF n <= 0 THEN acc
    ELSE LET drawn == make_assumption(perspective,
                                      MidSampleLeader(leader_move), acc.rand)
             reward == FInt(evaluate_points_accumulated(drawn.gamestate, move))
             risk == evaluate_risk(drawn.gamestate, move, t)
         IN  With([net_gain |-> FAdd(acc.net_gain, FSub(reward, risk)),
                   rand |-> drawn.rand,
                   samples |-> Append(acc.samples,
                                      MidSampleLeader(leader_move)),
                   states |-> Append(acc.states, drawn.gamestate)],
                  LAMBDA next :
                      MidTrials(perspective, move, leader_move, t, n - 1, next))

\* the outer loop of MidRiskBot.get_move; net_gain / self.num_samples
\* raises ZeroDivisionError when num_samples is 0
RECURSIVE MidLoop(_, _, _, _, _, _, _)
MidLoop(moves, i, perspective, leader_move, t, n, loop) ==
    IF i > Len(moves) THEN loop
    ELSE LET trials ==
                 MidTrials(perspective, moves[i], leader_move, t, n,
                     [net_gain |-> FInt(0), rand |-> loop.rand,
                      samples |-> loop.samples, states |-> loop.states])
         IN  IF n = 0
             THEN [loop EXCEPT !.raised = "ZeroDivisionError"]
             ELSE LET average_net_gain == FDivInt(trials.net_gain, n)
                      better == FGreater(average_net_gain, loop.best_net_gain)
                  IN  With([best_move |->
                                IF better THEN moves[i] ELSE loop.best_move,
                            best_net_gain |->
                                IF better THEN average_net_gain
                                ELSE loop.best_net_gain,
                            rand |-> trials.rand,
                            samples |-> trials.samples,
                            states |-> trials.states,
                            net_gains |->
                                Append(loop.net_gains, average_net_gain),
                            raised |-> "None"],
                           LAMBDA next :
                               MidLoop(moves, i + 1, perspective, leader_move,
                                       t, n, next))

(* ------------------------- HighRiskBotFinal --------------------------- *)
\* calculated_points_card
calculated_points_card(card) ==
    CASE card.rank = "ACE" -> 11
      [] card.rank = "TEN" -> 10
      [] card.rank = "KING" -> 4
      [] card.rank = "QUEEN" -> 3
      [] card.rank = "JACK" -> 2
      [] OTHER -> 0

\* mutant: the reward is discounted by the agent's risk_tolerance
high_reward_evaluation_discounted(perspective, move) ==
    LET rewarded_value ==
            CASE move.kind = "RegularMove" -> calculated_points_card(move.card)
              [] move.kind = "Marriage" ->
                     IF /\ MarriageSuit(move) = perspective.trump_suit
                        /\ move.queen_card.rank = "QUEEN"
                        /\ move.king_card.rank = "KING"
                     THEN 40 ELSE 20
              [] OTHER -> 0
    IN  (rewarded_value * (100 - risk_tolerance)) \div 100

\* __high_reward_evaluation
high_reward_evaluation(perspective, move) ==
    CASE move.kind = "RegularMove" -> calculated_points_card(move.card)
      [] move.kind = "Marriage" ->
             IF /\ MarriageSuit(move) = perspective.trump_suit
                /\ move.queen_card.rank = "QUEEN"
                /\ move.king_card.rank = "KING"
             THEN 40 ELSE 20
      [] OTHER -> 0

\* max(list) of a non-empty list of integers
ListMax(x) == CHOOSE v \in Range(x) : \A w \in Range(x) : w <= v

\* list.index(v): the first position (from 1) holding v
ListIndex(x, v) == CHOOSE i \in 1..Len(x) : x[i] = v /\ \A j \in 1..(i - 1) : x[j] # v

\* the body of HighRiskBotFinal.get_move after the shuffle
HighSelect(moves, perspective, r) ==
    LET high_rewarded_value ==
            [i \in 1..Len(moves) |-> high_reward_evaluation(perspective, moves[i])]
        best_high_reward == ListMax(high_rewarded_value)
    IN  [best_move |-> moves[ListIndex(high_rewarded_value, best_high_reward)],
         best_net_gain |-> FInt(best_high_reward),
         rand |-> r,
         samples |-> <<>>,
         states |-> <<>>,
         net_gains |-> [i \in 1..Len(moves) |-> FInt(high_rewarded_value[i])],
         raised |-> "None"]

(* ------------------------------ get_move ------------------------------ *)
\* the selection of each variant on the shuffled list
Select(moves, perspective, leader_move, r) ==
    CASE variant = "LowRiskBotFinal" ->
             IF leader_move = None
             THEN evaluate_moves_as_leader(moves, perspective, risk_tolerance,
                                           num_samples, r)
             ELSE evaluate_moves_as_follower(moves, perspective, leader_move,
                                             risk_tolerance, num_samples, r)
      [] variant = "MidRiskBot" ->
             MidLoop(moves, 1, perspective, leader_move, risk_tolerance,
                     num_samples, StartLoop(r))
      [] variant = "HighRiskBotFinal" -> HighSelect(moves, perspective, r)

\* mutant: the states are sampled with a generator of their own, which
\* nothing seeds
get_move_own_sampler(perspective, leader_move) ==
    /\ status = "ready"
    /\ turn_no < MaxGameTurns
    /\ turn_no' = turn_no + 1
    /\ \E shuffled \in {shuffle(perspective.valid_moves, rand)} :
       \E r2 \in 0..(RandMod - 1) :
       \E result \in {Select(shuffled.list, perspective, leader_move, r2)} :
           /\ rand' = shuffled.rand
           /\ ret' = IF result.raised # "None"
                     THEN [kind |-> result.raised]
                     ELSE result.best_move
           /\ my_past_moves' =
                  IF variant = "LowRiskBotFinal"
                  THEN Append(my_past_moves, result.best_move)
                  ELSE my_past_moves
           /\ last_call' = [op |-> "get_move",
                            perspective |-> perspective,
                            leader_move |-> leader_move,
                            rand |-> rand,
                            valid_moves |-> perspective.valid_moves,
                            moves |-> shuffled.list,
                            net_gains |-> result.net_gains,
                            samples |-> result.samples,
                            states |-> result.states]
           /\ first_decision' =
                  IF first_decision = None /\ last_call.op = "__init__"
                  THEN [perspective |-> perspective,
                        leader_move |-> leader_move,
                        rand |-> rand,
                        risk_tolerance |-> risk_tolerance,
                        ret |-> ret',
                        rand_after |-> rand']
                  ELSE first_decision
    /\ UNCHANGED <<status, variant, name, risk_tolerance, num_samples, depth,
                   opponent_past_moves>>

get_move(perspective, leader_move) ==
    /\ status = "ready"
    /\ turn_no < MaxGameTurns
    /\ turn_no' = turn_no + 1
    /\ \E shuffled \in {shuffle(perspective.valid_moves, rand)} :
       \E result \in {Select(shuffled.list, perspective, leader_move,
                             shuffled.rand)} :
           /\ rand' = result.rand
           /\ ret' = IF result.raised # "None"
                     THEN [kind |-> result.raised]
                     ELSE result.best_move
           /\ my_past_moves' =
                  IF variant = "LowRiskBotFinal"
                  THEN Append(my_past_moves, result.best_move)
                  ELSE my_past_moves
           /\ last_call' = [op |-> "get_move",
                            perspective |-> perspective,
                            leader_move |-> leader_move,
                            rand |-> rand,
                            valid_moves |-> perspective.valid_moves,
                            moves |-> shuffled.list,
                            net_gains |-> result.net_gains,
                            samples |-> result.samples,
                            states |-> result.states]
           /\ first_decision' =
                  IF first_decision = None /\ last_call.op = "__init__"
                  THEN [perspective |-> perspective,
                        leader_move |-> leader_move,
                        rand |-> rand,
                        risk_tolerance |-> risk_tolerance,
                        ret |-> ret',
                        rand_after |-> rand']
                  ELSE first_decision
    /\ UNCHANGED <<status, variant, name, risk_tolerance, num_samples, depth,
                   opponent_past_moves>>

\* the turns the engine can ask the agent to move in: the perspective and
\* the leader_move it calls get_move with
TurnsOf(hands, trump_suits, boards, leader_moves) ==
    {<<Perspective(hand, trump_suit, board, leader_move), leader_move>> :
         hand \in hands, trump_suit \in trump_suits, board \in boards,
         leader_move \in leader_moves}

Turns == TurnsOf(OwnHands, TrumpSuits, Boards, {None} \cup LeaderMoves)

\* the turns followed across games: two hands, leading and following
FewTurns ==
    TurnsOf({ {Card("ACE", "HEARTS"), Card("ACE", "SPADES")},
              {Card("QUEEN", "HEARTS"), Card("KING", "HEARTS")} },
            {"HEARTS"},
            {b \in Boards : b.phase = "TWO" /\ b.opponent_hand_in_phase_two # {}},
            {None, RegularMove(Card("TEN", "CLUBS"))})

(* ----------------------- the scoring of one trial --------------------- *)
\* a move of a kind the agents do not know
OtherMove == [kind |-> "Other"]

\* the moves scored: the agent's cards, its marriages, the exchange of the
\* Jack of trumps, and a move of another kind
ScoredMoves(trump_suit) ==
    {RegularMove(OwnCards[i]) : i \in 1..Len(OwnCards)}
        \cup {Marriage(Card("QUEEN", s), Card("KING", s)) : s \in TrumpSuits}
        \cup {TrumpExchange(Card("JACK", trump_suit)), OtherMove}

\* the cards a sampled opponent hand is made of: none the agent holds
OpponentCards ==
    {Card("ACE", "CLUBS"), Card("TEN", "HEARTS"), Card("TEN", "SPADES"),
     Card("KING", "DIAMONDS"), Card("QUEEN", "DIAMONDS"), Card("JACK", "HEARTS")}

SampledStates ==
    {[follower_hand |-> hand, trump_suit |-> trump_suit, leader_move |-> None] :
         hand \in {h \in SUBSET OpponentCards : Cardinality(h) <= MaxOppHand},
         trump_suit \in TrumpSuits}

\* one trial of one candidate: the reward of the move and its risk in a
\* sampled state
evaluate_trial(gamestate, move) ==
    /\ status = "ready"
    /\ last_call' =
           [op |-> "evaluate_trial", gamestate |-> gamestate, move |-> move,
            reward |->
                IF variant = "HighRiskBotFinal"
                THEN high_reward_evaluation(gamestate, move)
                ELSE evaluate_points_accumulated(gamestate, move),
            probability |->
                IF variant = "HighRiskBotFinal"
                THEN high_estimate_probability_of_consequence(gamestate, move)
                ELSE estimate_probability_of_consequence(gamestate, move),
            severity |-> estimate_consequence_severity(gamestate, move),
            risk |->
                IF variant = "HighRiskBotFinal"
                THEN high_evaluate_risk(gamestate, move, risk_tolerance)
                ELSE evaluate_risk(gamestate, move, risk_tolerance)]
    /\ ret' = None
    /\ UNCHANGED <<status, variant, name, risk_tolerance, num_samples, depth,
                   rand, my_past_moves, opponent_past_moves, turn_no,
                   first_decision>>

\* the views the estimator is asked about
Views == {turn[1] : turn \in Turns}

\* estimate_opponents_potential_score(perspective), of the two variants
\* that have it
estimate_potential(perspective) ==
    /\ status = "ready"
    /\ variant # "MidRiskBot"
    /\ last_call' =
           [op |-> "estimate_potential", perspective |-> perspective,
            marriage_points |->
                IF variant = "HighRiskBotFinal"
                THEN high_estimate_marriage_points(perspective)
                ELSE estimate_marriage_points(perspective),
            estimated_score |->
                IF variant = "HighRiskBotFinal"
                THEN high_estimate_opponents_potential_score(perspective)
                ELSE estimate_opponents_potential_score(perspective)]
    /\ ret' = None
    /\ UNCHANGED <<status, variant, name, risk_tolerance, num_samples, depth,
                   rand, my_past_moves, opponent_past_moves, turn_no,
                   first_decision>>

(* --------------------------- specifications --------------------------- *)
\* an agent over any number of games
Next ==
    \/ \E turn \in FewTurns : turn_no < MaxTurns /\ get_move(turn[1], turn[2])
    \/ \E won \in BOOLEAN : notify_game_end(won)
    \/ \E move \in OpponentExchanges :
           Len(opponent_past_moves) < MaxHist /\ notify_trump_exchange(move)

Spec == Init /\ [][Next]_vars

\* the same, constructed with a risk_tolerance in [0,1]
InitValid ==
    \E v \in Variants, r \in 0..(RandMod - 1), n \in 0..MaxSamples,
       d \in Depths :
        \E t \in StartTolerances(v) \cap 0..100 :
            /\ Constructor(v, r, n, d, DefaultName(v), t)
            /\ first_decision = NoLog

SpecValid == InitValid /\ [][Next]_vars

\* one decision: a newly constructed agent is asked for one move, over
\* every turn
InitTurn ==
    \E v \in Variants, r \in 0..(RandMod - 1), n \in 0..MaxSamples,
       d \in Depths :
        \E t \in {0, DefaultRiskTolerance(v), 100} :
            /\ Constructor(v, r, n, d, DefaultName(v), t)
            /\ first_decision = NoLog

NextTurn ==
    \E turn \in Turns : turn_no = 0 /\ get_move(turn[1], turn[2])

SpecTurn == InitTurn /\ [][NextTurn]_vars

\* one game of an agent with a valid configuration and its default
\* risk_tolerance, with the history of its first decision kept
InitGame ==
    \E v \in Variants, r \in 0..(RandMod - 1), n \in 1..MaxSamples :
        /\ Constructor(v, r, n, 1, DefaultName(v), DefaultRiskTolerance(v))
        /\ first_decision = None

\* the turns of that game: phase one, the opponent holding an Ace in one of
\* the two worlds the world-completion draws from
GameTurns ==
    TurnsOf({ {Card("ACE", "HEARTS"), Card("ACE", "SPADES")},
              {Card("QUEEN", "HEARTS"), Card("KING", "HEARTS")} },
            {"HEARTS"},
            { [phase |-> "ONE",
               opponent_won_cards |-> {Card("QUEEN", "DIAMONDS")},
               opponent_hand_in_phase_two |-> {},
               known_cards_of_opponent_hand |-> {},
               worlds |-> << {Card("ACE", "CLUBS"), Card("TEN", "DIAMONDS")},
                             {Card("KING", "SPADES"), Card("TEN", "HEARTS")} >>] },
            {None, RegularMove(Card("TEN", "CLUBS"))})

NextGame ==
    \/ \E turn \in GameTurns : get_move(turn[1], turn[2])
    \/ \E move \in OpponentExchanges : notify_trump_exchange(move)

SpecGame == InitGame /\ [][NextGame]_vars

\* one trial scored, or one view estimated, by an agent with a valid
\* configuration, over the values of risk_tolerance games leave it with
InitScore ==
    \E v \in Variants :
        \E t \in {0, DefaultRiskTolerance(v), 100} :
            /\ Constructor(v, 0, 1, 1, DefaultName(v), t)
            /\ first_decision = NoLog

NextScore ==
    \/ \E gamestate \in SampledStates :
           \E move \in ScoredMoves(gamestate.trump_suit) :
               last_call.op = "__init__" /\ evaluate_trial(gamestate, move)
    \/ \E perspective \in Views :
           last_call.op = "__init__" /\ estimate_potential(perspective)

SpecScore == InitScore /\ [][NextScore]_vars

(* ------------------------------- claims ------------------------------- *)
\* get_move returned a move (it did not raise)
Returned == last_call.op = "get_move" /\ ret.kind # "ZeroDivisionError"

\* the agent has the configuration the constructor is meant to insist on
ValidConfig == num_samples >= 1 /\ depth >= 1

\* C1: the move get_move returns is the first candidate, in shuffled order,
\* whose aggregate net gain is maximal: no candidate scores higher, and
\* every earlier candidate scores strictly lower.
C1_FirstMaximal ==
    Returned =>
        \E i \in 1..Len(last_call.moves) :
            /\ ret = last_call.moves[i]
            /\ \A j \in 1..Len(last_call.moves) :
                   ~FGreater(last_call.net_gains[j], last_call.net_gains[i])
            /\ \A j \in 1..(i - 1) :
                   FGreater(last_call.net_gains[i], last_call.net_gains[j])

\* a tie for the maximum in LowRiskBotFinal, the earlier candidate returned
C1_Witness ==
    /\ Returned
    /\ variant = "LowRiskBotFinal"
    /\ \E i, j \in 1..Len(last_call.moves) :
           /\ i < j
           /\ last_call.net_gains[i] = last_call.net_gains[j]
           /\ \A k \in 1..Len(last_call.moves) :
                  ~FGreater(last_call.net_gains[k], last_call.net_gains[i])
           /\ ret = last_call.moves[i]
           /\ ret # last_call.moves[j]

\* C2: constructed with a risk_tolerance in [0,1], the agent's
\* risk_tolerance is in [0,1] in every state it reaches.
C2_ToleranceInRange == risk_tolerance \in 0..100

\* a win at the upper end and the clamp holding risk_tolerance at 1
C2_Witness ==
    /\ ValidConfig
    /\ last_call.op = "notify_game_end"
    /\ last_call.won
    /\ variant = "MidRiskBot"
    /\ risk_tolerance = 100

\* C3: risk_tolerance is in [0,1] right after every game-end adjustment,
\* whatever value the agent was constructed with (stated of agents with a
\* valid num_samples and depth).
C3_InRangeAfterAdjustment ==
    (ValidConfig /\ last_call.op = "notify_game_end") =>
        risk_tolerance \in 0..100

\* C4: with num_samples >= 1, get_move returns a member of the candidate
\* list it was given, never None.
C4_ReturnsCandidate ==
    (last_call.op = "get_move" /\ num_samples >= 1) =>
        /\ ret # None
        /\ ret \in Range(last_call.valid_moves)

\* every candidate scores below zero and one of them is returned
C4_Witness ==
    /\ last_call.op = "get_move"
    /\ ValidConfig
    /\ Len(last_call.valid_moves) >= 2
    /\ \A j \in 1..Len(last_call.moves) :
           FGreater(FInt(0), last_call.net_gains[j])
    /\ ret \in Range(last_call.valid_moves)

\* C5: no usable agent has num_samples < 1 or depth < 1.
C5_ConfigValidated ==
    status = "ready" => (num_samples >= 1 /\ depth >= 1)

\* C6: every state get_move draws is sampled with the leader_move get_move
\* was called with (stated of agents with a valid num_samples and depth).
C6_SamplesFixLeader ==
    (ValidConfig /\ last_call.op = "get_move") =>
        \A k \in 1..Len(last_call.samples) :
            last_call.samples[k] = last_call.leader_move

\* C7: a get_move call draws num_samples states for each of its candidates
\* (stated of agents with a valid num_samples and depth).
C7_SamplesPerCandidate ==
    (ValidConfig /\ last_call.op = "get_move") =>
        Len(last_call.samples) = Len(last_call.moves) * num_samples

\* C8: only a game-end notification changes risk_tolerance.
C8_OnlyGameEndAdjusts ==
    [][last_call'.op # "notify_game_end" => risk_tolerance' = risk_tolerance]_vars

\* a game in which both get_move and notify_trump_exchange have run
C8_Witness ==
    /\ ValidConfig
    /\ Returned
    /\ opponent_past_moves # <<>>
    /\ risk_tolerance = DefaultRiskTolerance(variant)

\* the steps of C9, in hundredths
WinDelta(v) == IF v = "LowRiskBotFinal" THEN 10 ELSE 5

LossDelta(v) == 5

\* C9: from a risk_tolerance t in [0,1], a game-end notification sets it to
\* min(1, t + d_win) on a win and to max(0, t - d_loss) on a loss; a win
\* never lowers it and a loss never raises it.
C9_AdjustmentStep ==
    [][(last_call'.op = "notify_game_end" /\ risk_tolerance \in 0..100) =>
           IF last_call'.won
           THEN /\ risk_tolerance' = Min(100, risk_tolerance + WinDelta(variant))
                /\ risk_tolerance' >= risk_tolerance
           ELSE /\ risk_tolerance' = Max(0, risk_tolerance - LossDelta(variant))
                /\ risk_tolerance' <= risk_tolerance]_vars

\* LowRiskBotFinal after a win that took it from its default 0.3 to 0.4
C9_Witness ==
    /\ last_call.op = "notify_game_end"
    /\ last_call.won
    /\ variant = "LowRiskBotFinal"
    /\ risk_tolerance = 40

\* C10: a game-end notification leaves both history buffers empty and
\* changes nothing else but risk_tolerance: num_samples, depth, the random
\* source and the name stay as they were.
C10_GameEndFrame ==
    [][last_call'.op = "notify_game_end" =>
           /\ my_past_moves' = <<>>
           /\ opponent_past_moves' = <<>>
           /\ UNCHANGED <<num_samples, depth, rand, name, variant, status>>]_vars

\* a game end that emptied two buffers that both held a move
C10_Witness ==
    /\ last_call.op = "notify_game_end"
    /\ last_call.cleared[1] > 0
    /\ last_call.cleared[2] > 0
    /\ my_past_moves = <<>>
    /\ opponent_past_moves = <<>>

\* get_move was called a second time with the arguments and in the state
\* of the random source and of risk_tolerance of the first decision
Replayed ==
    /\ last_call.op = "get_move"
    /\ first_decision \notin {None, NoLog}
    /\ last_call.perspective = first_decision.perspective
    /\ last_call.leader_move = first_decision.leader_move
    /\ last_call.rand = first_decision.rand
    /\ risk_tolerance = first_decision.risk_tolerance

\* C11: a get_move call that starts with the random source, the view, the
\* leader move and risk_tolerance of an earlier call returns the move that
\* call returned and leaves the random source in the state that call left
\* it in; and the one generator serves the shuffle and the sampling: a call
\* steps it once per number the shuffle draws and once per state sampled.
C11_SameSeedSameDecision ==
    /\ Replayed => (ret = first_decision.ret /\ rand = first_decision.rand_after)
    /\ last_call.op = "get_move" =>
           rand = (last_call.rand + (Len(last_call.moves) - 1)
                       + Len(last_call.samples)) % RandMod

\* a replay of the first decision later in the game, after the opponent
\* exchanged the trump Jack, by an agent that samples
C11_Witness ==
    /\ Replayed
    /\ opponent_past_moves # <<>>
    /\ Len(last_call.samples) >= 2
    /\ ret = first_decision.ret

C13_ExchangeRecordedNeverRead ==
    [][/\ last_call'.op = "notify_trump_exchange" =>
              /\ opponent_past_moves' =
                     Append(opponent_past_moves, last_call'.move)
              /\ UNCHANGED <<risk_tolerance, num_samples, depth,
                             my_past_moves, rand, name, variant, status>>
       /\ (/\ last_call'.op = "get_move"
           /\ first_decision \notin {None, NoLog}
           /\ last_call'.perspective = first_decision.perspective
           /\ last_call'.leader_move = first_decision.leader_move
           /\ last_call'.rand = first_decision.rand
           /\ risk_tolerance = first_decision.risk_tolerance) =>
              ret' = first_decision.ret]_vars

\* LowRiskBotFinal replaying its first decision with moves of its own and
\* two different exchanges of the opponent in the histories
C13_Witness ==
    /\ Replayed
    /\ variant = "LowRiskBotFinal"
    /\ Len(my_past_moves) >= 2
    /\ Len(opponent_past_moves) = 2
    /\ opponent_past_moves[1] # opponent_past_moves[2]
    /\ ret = first_decision.ret

\* the opponent-potential estimate of a view: the estimator of the variant,
\* and for MidRiskBot, which has none, the one of HighRiskBotFinal
OpponentPotential(perspective) ==
    IF variant = "LowRiskBotFinal"
    THEN estimate_opponents_potential_score(perspective)
    ELSE high_estimate_opponents_potential_score(perspective)

\* netGain = reward - risk - opponentPotential of one trial
NetGain(perspective, move, gamestate) ==
    FSub(FSub(FInt(evaluate_points_accumulated(gamestate, move)),
              evaluate_risk(gamestate, move, risk_tolerance)),
         OpponentPotential(perspective))

\* the sum of netGain over the trials first..last of the call
RECURSIVE SumNetGain(_, _, _)
SumNetGain(move, first, last) ==
    IF first > last THEN FInt(0)
    ELSE FAdd(NetGain(last_call.perspective, move, last_call.states[first]),
              SumNetGain(move, first + 1, last))

\* C14: the score of every candidate of a get_move call is the aggregate
\* (the sum in LowRiskBotFinal, the average in the other two) of
\* reward - risk - opponentPotential over its num_samples trials (stated of
\* agents with a valid num_samples and depth).
C14_ScoreIsAggregateNetGain ==
    (ValidConfig /\ last_call.op = "get_move") =>
        /\ Len(last_call.states) = Len(last_call.moves) * num_samples
        /\ \A i \in 1..Len(last_call.moves) :
               LET total == SumNetGain(last_call.moves[i],
                                       (i - 1) * num_samples + 1,
                                       i * num_samples)
               IN  last_call.net_gains[i] =
                       IF variant = "LowRiskBotFinal" THEN total
                       ELSE FDivInt(total, num_samples)

\* the suits with a Queen or a King among the opponent's won cards
QualifyingSuits(perspective) ==
    {s \in Suits : \E card \in perspective.opponent_won_cards :
                       card.suit = s /\ card.rank \in {"QUEEN", "KING"}}

\* 0.5 * marriageValue for every qualifying suit, each suit once
MarriageTerm(perspective) ==
    LET q == QualifyingSuits(perspective)
    IN  Frac(40 * Cardinality(q \cap {perspective.trump_suit})
                 + 20 * Cardinality(q \ {perspective.trump_suit}), 2)

\* the estimate without its marriage term: the banked points and the term
\* of the unknown cards, which LowRiskBotFinal adds in phase two only
BankedAndUnseen(perspective) ==
    LET unseen ==
            FMul(FInt(Cardinality(perspective.opponent_hand_in_phase_two)
                          - Cardinality(perspective.known_cards_of_opponent_hand)),
                 get_average_value_card(perspective))
    IN  FAdd(FInt(SumPoints(perspective.opponent_won_cards)),
             IF variant = "LowRiskBotFinal" /\ perspective.phase # "TWO"
             THEN FInt(0) ELSE unseen)

\* C15 as stated: in both variants that have the estimator, and in both
\* phases, the estimate contains 0.5 * marriageValue(suit) for every suit
\* with a King or a Queen among the opponent's won cards, each such suit
\* counted once.
C15_MarriageTermBothPhases ==
    last_call.op = "estimate_potential" =>
        /\ last_call.marriage_points = MarriageTerm(last_call.perspective)
        /\ last_call.estimated_score =
               FAdd(BankedAndUnseen(last_call.perspective),
                    MarriageTerm(last_call.perspective))

\* C15 amended: the same, but LowRiskBotFinal adds the marriage term in
\* phase two only; in phase one its marriage term is 0.
C15_MarriageTermGatedInLow ==
    last_call.op = "estimate_potential" =>
        LET perspective == last_call.perspective
            term == IF variant = "LowRiskBotFinal" /\ perspective.phase # "TWO"
                    THEN FInt(0) ELSE MarriageTerm(perspective)
        IN  /\ last_call.marriage_points = term
            /\ last_call.estimated_score =
                   FAdd(BankedAndUnseen(perspective), term)

\* LowRiskBotFinal in phase two, the opponent having won the King and the
\* Queen of trumps and the King of another suit: 0.5 * 40 + 0.5 * 20
C15_Witness ==
    /\ last_call.op = "estimate_potential"
    /\ variant = "LowRiskBotFinal"
    /\ last_call.perspective.phase = "TWO"
    /\ Cardinality(QualifyingSuits(last_call.perspective)) = 2
    /\ \E s \in Suits :
           {Card("QUEEN", s), Card("KING", s)}
               \subseteq last_call.perspective.opponent_won_cards
    /\ last_call.marriage_points = <<30, 1>>

\* the cards of a hand whose rank is strictly higher than the rank of a card
HigherRanked(hand, card) ==
    {c \in hand : RankValue(c.rank) > RankValue(card.rank)}

PointsByKindAndRank(move, trump_suit) ==
    CASE move.kind = "RegularMove" ->
             (CASE move.card.rank = "ACE" -> 11
                [] move.card.rank = "TEN" -> 10
                [] move.card.rank = "KING" -> 4
                [] move.card.rank = "QUEEN" -> 3
                [] move.card.rank = "JACK" -> 2)
      [] move.kind = "Marriage" ->
             IF MarriageSuit(move) = trump_suit THEN 40 ELSE 20
      [] OTHER -> 0

OtherPotentials == {FInt(0), Frac(7, 2), FInt(100)}

\* C19: in LowRiskBotFinal the opponent-potential estimate is computed once
\* per call and subtracted in every trial of every candidate: with any
\* other value in its place, as leader and as follower, the same move is
\* returned, and every candidate's score moves by num_samples times the
\* difference.
C19_PotentialShiftsAllScores ==
    (last_call.op = "get_move" /\ variant = "LowRiskBotFinal") =>
        LET perspective == last_call.perspective
            estimate == estimate_opponents_potential_score(perspective)
            r == shuffle(last_call.valid_moves, last_call.rand).rand
        IN  \A other \in OtherPotentials :
                LET alt == LowLoop(last_call.moves, 1, perspective,
                                   last_call.leader_move, other,
                                   risk_tolerance, num_samples, StartLoop(r))
                IN  /\ alt.best_move = ret
                    /\ \A i \in 1..Len(last_call.moves) :
                           alt.net_gains[i] =
                               FAdd(last_call.net_gains[i],
                                    FMul(FInt(num_samples),
                                         FSub(estimate, other)))

\* LowRiskBotFinal following a lead against an opponent with points banked:
\* every score is below zero and the second candidate is returned
C19_Witness ==
    /\ last_call.op = "get_move"
    /\ variant = "LowRiskBotFinal"
    /\ num_samples = 2
    /\ last_call.leader_move # None
    /\ FGreater(estimate_opponents_potential_score(last_call.perspective),
                FInt(11))
    /\ Len(last_call.moves) = 2
    /\ ret = last_call.moves[2]
====
